---------------------------- MODULE Spec2Model ----------------------------
(***************************************************************************)
(* Model of the js-rev command line tool (src/src/index.ts).               *)
(*                                                                         *)
(* One process run is modelled: the constructor registers the three        *)
(* commands, run() parses the command line and calls exactly one handler   *)
(* (handleAnalyze, handleMetrics or handleLibraries).  The state is what   *)
(* the handler can observe and change: the file system entry named by      *)
(* --file, the parsed options, the console streams, the requests made to   *)
(* process.exit, and the handler's locals (fileContent, metrics).          *)
(***************************************************************************)
EXTENDS Integers, Sequences, FiniteSets

(***************************************************************************)
(* Bounds of the model.                                                    *)
(***************************************************************************)
\* longest base text of a file, in characters
MaxLen == 2

(***************************************************************************)
(* Characters and file contents.                                           *)
(*                                                                         *)
(* A character is named by a string; what matters to the program is its    *)
(* UTF-8 byte count (Buffer.byteLength), its UTF-16 unit count             *)
(* (String.length) and whether it is the newline.  "e'" stands for U+00E9  *)
(* (2 bytes, 1 unit), "euro" for U+20AC (3 bytes, 1 unit) and "emoji" for  *)
(* U+1F600 (4 bytes, 2 units).                                             *)
(*                                                                         *)
(* A file content is a base text repeated rep times, the way the test      *)
(* helper createLargeJavaScriptFile builds large inputs.                   *)
(***************************************************************************)
Chars == {"a", "nl", "e'", "euro", "emoji"}

Utf8Bytes(c) ==
    CASE c = "a"     -> 1
      [] c = "nl"    -> 1
      [] c = "e'"    -> 2
      [] c = "euro"  -> 3
      [] c = "emoji" -> 4

Utf16Units(c) == IF c = "emoji" THEN 2 ELSE 1

\* small repeat counts, 'a'.repeat(1000000) of the large-file test, and the
\* first repeat count that takes a one-byte base to the 50MB line of
\* handleAnalyze
Repeats == {1, 2, 3, 1000000, 52428800}

BaseTexts == UNION {[1..n -> Chars] : n \in 0..MaxLen}

\* the empty text repeated is the empty text: it is held once, with rep = 1
Contents ==
    {c \in {[base |-> b, rep |-> r] : b \in BaseTexts, r \in Repeats} :
        c.base = <<>> => c.rep = 1}

EmptyContent == [base |-> <<>>, rep |-> 1]

\* the sum of w[c] over the characters c of s
RECURSIVE SumOver(_, _)
SumOver(s, w) ==
    IF s = <<>> THEN 0 ELSE w[Head(s)] + SumOver(Tail(s), w)

IsNewline(c) == IF c = "nl" THEN 1 ELSE 0

\* Buffer.byteLength(content, 'utf8')
ByteLength(content) == content.rep * SumOver(content.base, [c \in Chars |-> Utf8Bytes(c)])

\* content.length
StringLength(content) == content.rep * SumOver(content.base, [c \in Chars |-> Utf16Units(c)])

\* SplitLines had it counted the newlines rather than the pieces
SplitLinesCountsNewlines(content) ==
    content.rep * SumOver(content.base, [c \in Chars |-> IsNewline(c)])

\* content.split('\n').length
SplitLines(content) == content.rep * SumOver(content.base, [c \in Chars |-> IsNewline(c)]) + 1

\* Math.ceil(n / d) for n >= 0, d > 0
Ceil(n, d) == (n + d - 1) \div d

\* content.match(/function\s*\(|=>\s*{|\w+\s*:\s*function/g): every
\* alternative needs the letters of "function" or the pair "=>", and no
\* text over Chars holds them
FunctionMatches(content) == 0

TokenRatio == 4

\* getFileMetrics had it left out the division by the ratio
getFileMetricsNoRatio(content) ==
    LET size == ByteLength(content)
    IN  [size            |-> size,
         lines           |-> SplitLines(content),
         functions       |-> FunctionMatches(content),
         estimatedTokens |-> size]

getFileMetrics(content) ==
    LET size == ByteLength(content)
    IN  [size            |-> size,
         lines           |-> SplitLines(content),
         functions       |-> FunctionMatches(content),
         estimatedTokens |-> Ceil(size, TokenRatio)]

NoMetrics == [size |-> -1, lines |-> -1, functions |-> -1, estimatedTokens |-> -1]

NoContent == [base |-> <<>>, rep |-> 0]

(***************************************************************************)
(* Options of the analyze command.  commander hands --max-tokens over as   *)
(* the text the user typed (default '180000'); it is a sequence of         *)
(* characters here.                                                        *)
(***************************************************************************)
DefaultMaxTokens == <<"1", "8", "0", "0", "0", "0">>

MaxTokensArgs ==
    {DefaultMaxTokens, <<"3">>, <<"0">>, <<"-", "5">>, <<"a", "b", "c">>}

AnalysisOptions ==
    [verbose : BOOLEAN, maxTokens : MaxTokensArgs, filterLibraries : BOOLEAN]

NoOptions ==
    [verbose |-> FALSE, maxTokens |-> DefaultMaxTokens, filterLibraries |-> TRUE]

\* the options Spec leaves at their defaults and SpecAllOptions varies
Providers == {"claude", "openai", "local"}

FocusAreas == {"security", "general", "performance"}

Formats == {"markdown", "json", "html"}

AllAnalysisOptions ==
    [verbose : BOOLEAN, maxTokens : MaxTokensArgs, filterLibraries : BOOLEAN,
     provider : Providers, focus : FocusAreas, format : Formats,
     output : BOOLEAN]

LargeFileBytes == 50 * 1024 * 1024

ChunkTokens == 200000

\* (size / 1024 / 1024).toFixed(2), in hundredths of a MB
ToFixed2MB(size) ==
    (size \div 1048576) * 100 + ((size % 1048576) * 100 + 524288) \div 1048576

Msg(tag, val) == [tag |-> tag, val |-> val]

VARIABLES
    fileExists,   \* existsSync(options.file)
    readable,     \* readFileSync(options.file) returns rather than throws
    content,      \* the file's content
    exitMocked,   \* process.exit is the test setup's throwing mock
    outputWritten,\* the file named by --output was written
    cmd,          \* the command run() dispatched to, "none" before
    options,      \* the handler's options argument
    pc,           \* the handler's position
    stdout,       \* console.log lines
    stderr,       \* console.error and console.warn lines
    exitCalls,    \* the codes process.exit was called with
    fileContent,  \* handler local: what readFileSync returned
    metrics       \* handler local: getFileMetrics(fileContent)

vars == <<fileExists, readable, content, exitMocked, outputWritten, cmd, options, pc,
          stdout, stderr, exitCalls, fileContent, metrics>>

\* what no handler writes: the fs import holds readFileSync and existsSync only
env == <<fileExists, readable, content, exitMocked, outputWritten>>

TypeOK ==
    /\ fileExists \in BOOLEAN
    /\ readable \in BOOLEAN
    /\ content \in Contents
    /\ exitMocked \in BOOLEAN
    /\ cmd \in {"none", "analyze", "metrics", "libraries"}
    /\ outputWritten \in BOOLEAN
    /\ options \in AnalysisOptions \cup AllAnalysisOptions
    /\ exitCalls \in Seq({1})

\* The state after new JSReverseEngineer(): commands registered, nothing run.
Init ==
    /\ fileExists \in BOOLEAN
    /\ readable \in BOOLEAN
    /\ content \in Contents
    /\ ~fileExists => (~readable /\ content = EmptyContent)
    /\ exitMocked \in BOOLEAN
    /\ outputWritten = FALSE
    /\ cmd = "none"
    /\ options = NoOptions
    /\ pc = "constructed"
    /\ stdout = <<>>
    /\ stderr = <<>>
    /\ exitCalls = <<>>
    /\ fileContent = NoContent
    /\ metrics = NoMetrics

(***************************************************************************)
(* process.exit(1) called at a place whose enclosing catch is at position  *)
(* catchPc: the real process.exit ends the process; the test setup's mock  *)
(* throws, and the throw lands in the enclosing catch.                     *)
(***************************************************************************)
ProcessExit(catchPc) ==
    /\ exitCalls' = Append(exitCalls, 1)
    /\ pc' = IF exitMocked THEN catchPc ELSE "exited"

(***************************************************************************)
(* run(): this.program.parse() dispatches to one handler.                  *)
(***************************************************************************)
RunAnalyze ==
    /\ pc = "constructed"
    /\ \E o \in AnalysisOptions : options' = o
    /\ cmd' = "analyze"
    /\ pc' = "analyze_start"
    /\ UNCHANGED <<env, stdout, stderr, exitCalls, fileContent, metrics>>

\* the analyze command with every option free; output tells whether --output
\* was given
RunAnalyzeAnyOptions ==
    /\ pc = "constructed"
    /\ \E o \in AllAnalysisOptions : options' = o
    /\ cmd' = "analyze"
    /\ pc' = "analyze_start"
    /\ UNCHANGED <<env, stdout, stderr, exitCalls, fileContent, metrics>>

RunMetrics ==
    /\ pc = "constructed"
    /\ cmd' = "metrics"
    /\ pc' = "metrics_validate"
    /\ UNCHANGED <<env, options, stdout, stderr, exitCalls, fileContent, metrics>>

RunLibraries ==
    /\ pc = "constructed"
    /\ cmd' = "libraries"
    /\ pc' = "libraries_validate"
    /\ UNCHANGED <<env, options, stdout, stderr, exitCalls, fileContent, metrics>>

(***************************************************************************)
(* handleAnalyze                                                           *)
(***************************************************************************)
AnalyzeStart ==
    /\ pc = "analyze_start"
    /\ stdout' = stdout \o <<Msg("Starting", 0)>>
                        \o (IF options.verbose THEN <<Msg("Options", 0)>> ELSE <<>>)
    /\ pc' = "analyze_validate"
    /\ UNCHANGED <<env, cmd, options, stderr, exitCalls, fileContent, metrics>>

AnalyzeFileNotFound ==
    /\ pc = "analyze_validate"
    /\ ~fileExists
    /\ stderr' = Append(stderr, Msg("FileNotFound", 0))
    /\ ProcessExit("analyze_catch")
    /\ UNCHANGED <<env, cmd, options, stdout, fileContent, metrics>>

\* AnalyzeValidated had it gone on without the existsSync check
AnalyzeValidatedUnchecked ==
    /\ pc = "analyze_validate"
    /\ pc' = "analyze_read"
    /\ UNCHANGED <<env, cmd, options, stdout, stderr, exitCalls, fileContent, metrics>>

AnalyzeValidated ==
    /\ pc = "analyze_validate"
    /\ fileExists
    /\ pc' = "analyze_read"
    /\ UNCHANGED <<env, cmd, options, stdout, stderr, exitCalls, fileContent, metrics>>

AnalyzeReadFails ==
    /\ pc = "analyze_read"
    /\ ~readable
    /\ pc' = "analyze_catch"
    /\ UNCHANGED <<env, cmd, options, stdout, stderr, exitCalls, fileContent, metrics>>

AnalyzeRead ==
    /\ pc = "analyze_read"
    /\ readable
    /\ fileContent' = content
    /\ metrics' = getFileMetrics(content)
    /\ stdout' = stdout \o <<Msg("FileMetrics", 0),
                             Msg("Size", ToFixed2MB(metrics'.size)),
                             Msg("Lines", metrics'.lines),
                             Msg("EstimatedTokens", metrics'.estimatedTokens)>>
    /\ pc' = "analyze_warn"
    /\ UNCHANGED <<env, cmd, options, stderr, exitCalls>>

\* AnalyzeWarn had it warned from the 50MB line on rather than above it
AnalyzeWarnAtLine ==
    /\ pc = "analyze_warn"
    /\ stderr' = IF metrics.size >= LargeFileBytes
                 THEN Append(stderr, Msg("LargeFile", 0))
                 ELSE stderr
    /\ pc' = "analyze_notice"
    /\ UNCHANGED <<env, cmd, options, stdout, exitCalls, fileContent, metrics>>

AnalyzeWarn ==
    /\ pc = "analyze_warn"
    /\ stderr' = IF metrics.size > LargeFileBytes
                 THEN Append(stderr, Msg("LargeFile", 0))
                 ELSE stderr
    /\ pc' = "analyze_notice"
    /\ UNCHANGED <<env, cmd, options, stdout, exitCalls, fileContent, metrics>>

\* AnalyzeNotice had it stripped the loaded text before finishing
AnalyzeNoticeStripsBuffer ==
    /\ pc = "analyze_notice"
    /\ stdout' = stdout \o <<Msg("NotImplemented", 0), Msg("NextSteps", 0),
                             Msg("NextStep", 1), Msg("NextStep", 2),
                             Msg("NextStep", 3), Msg("NextStep", 4)>>
    /\ pc' = "done"
    /\ fileContent' = EmptyContent
    /\ UNCHANGED <<env, cmd, options, stderr, exitCalls, metrics>>

AnalyzeNotice ==
    /\ pc = "analyze_notice"
    /\ stdout' = stdout \o <<Msg("NotImplemented", 0), Msg("NextSteps", 0),
                             Msg("NextStep", 1), Msg("NextStep", 2),
                             Msg("NextStep", 3), Msg("NextStep", 4)>>
    /\ pc' = "done"
    /\ UNCHANGED <<env, cmd, options, stderr, exitCalls, fileContent, metrics>>

AnalyzeCatch ==
    /\ pc = "analyze_catch"
    /\ stderr' = Append(stderr, Msg("AnalysisFailed", 0))
    /\ ProcessExit("rejected")
    /\ UNCHANGED <<env, cmd, options, stdout, fileContent, metrics>>

handleAnalyze ==
    \/ AnalyzeStart
    \/ AnalyzeFileNotFound
    \/ AnalyzeValidated
    \/ AnalyzeReadFails
    \/ AnalyzeRead
    \/ AnalyzeWarn
    \/ AnalyzeNotice
    \/ AnalyzeCatch

(***************************************************************************)
(* handleMetrics                                                           *)
(***************************************************************************)
MetricsFileNotFound ==
    /\ pc = "metrics_validate"
    /\ ~fileExists
    /\ stderr' = Append(stderr, Msg("FileNotFound", 0))
    /\ ProcessExit("metrics_catch")
    /\ UNCHANGED <<env, cmd, options, stdout, fileContent, metrics>>

MetricsValidated ==
    /\ pc = "metrics_validate"
    /\ fileExists
    /\ pc' = "metrics_read"
    /\ UNCHANGED <<env, cmd, options, stdout, stderr, exitCalls, fileContent, metrics>>

MetricsReadFails ==
    /\ pc = "metrics_read"
    /\ ~readable
    /\ pc' = "metrics_catch"
    /\ UNCHANGED <<env, cmd, options, stdout, stderr, exitCalls, fileContent, metrics>>

\* MetricsRead had it rounded the chunk count down
MetricsReadFloorChunks ==
    /\ pc = "metrics_read"
    /\ readable
    /\ fileContent' = content
    /\ metrics' = getFileMetrics(content)
    /\ stdout' = stdout \o <<Msg("MetricsHeader", 0),
                             Msg("Rule", 40),
                             Msg("FileSize", ToFixed2MB(metrics'.size)),
                             Msg("Lines", metrics'.lines),
                             Msg("EstimatedFunctions", metrics'.functions),
                             Msg("EstimatedTokens", metrics'.estimatedTokens),
                             Msg("ChunksNeeded",
                                 metrics'.estimatedTokens \div ChunkTokens)>>
    /\ pc' = "done"
    /\ UNCHANGED <<env, cmd, options, stderr, exitCalls>>

MetricsRead ==
    /\ pc = "metrics_read"
    /\ readable
    /\ fileContent' = content
    /\ metrics' = getFileMetrics(content)
    /\ stdout' = stdout \o <<Msg("MetricsHeader", 0),
                             Msg("Rule", 40),
                             Msg("FileSize", ToFixed2MB(metrics'.size)),
                             Msg("Lines", metrics'.lines),
                             Msg("EstimatedFunctions", metrics'.functions),
                             Msg("EstimatedTokens", metrics'.estimatedTokens),
                             Msg("ChunksNeeded",
                                 Ceil(metrics'.estimatedTokens, ChunkTokens))>>
    /\ pc' = "done"
    /\ UNCHANGED <<env, cmd, options, stderr, exitCalls>>

MetricsCatch ==
    /\ pc = "metrics_catch"
    /\ stderr' = Append(stderr, Msg("MetricsFailed", 0))
    /\ ProcessExit("rejected")
    /\ UNCHANGED <<env, cmd, options, stdout, fileContent, metrics>>

handleMetrics ==
    \/ MetricsFileNotFound
    \/ MetricsValidated
    \/ MetricsReadFails
    \/ MetricsRead
    \/ MetricsCatch

(***************************************************************************)
(* handleLibraries                                                         *)
(***************************************************************************)
LibrariesFileNotFound ==
    /\ pc = "libraries_validate"
    /\ ~fileExists
    /\ stderr' = Append(stderr, Msg("FileNotFound", 0))
    /\ ProcessExit("libraries_catch")
    /\ UNCHANGED <<env, cmd, options, stdout, fileContent, metrics>>

LibrariesNotice ==
    /\ pc = "libraries_validate"
    /\ fileExists
    /\ stdout' = stdout \o <<Msg("LibraryDetection", 0), Msg("Rule", 40),
                             Msg("NotImplemented", 0), Msg("Planned", 0),
                             Msg("Planned", 1), Msg("Planned", 2),
                             Msg("Planned", 3), Msg("Planned", 4)>>
    /\ pc' = "done"
    /\ UNCHANGED <<env, cmd, options, stderr, exitCalls, fileContent, metrics>>

LibrariesCatch ==
    /\ pc = "libraries_catch"
    /\ stderr' = Append(stderr, Msg("LibrariesFailed", 0))
    /\ ProcessExit("rejected")
    /\ UNCHANGED <<env, cmd, options, stdout, fileContent, metrics>>

handleLibraries ==
    \/ LibrariesFileNotFound
    \/ LibrariesNotice
    \/ LibrariesCatch

Next ==
    \/ RunAnalyze
    \/ RunMetrics
    \/ RunLibraries
    \/ handleAnalyze
    \/ handleMetrics
    \/ handleLibraries

Spec == Init /\ [][Next]_vars

(***************************************************************************)
(* The analyze command under every combination of its options, on the      *)
(* files of at most one character repeated, which lie below, on and above  *)
(* the 50MB line.                                                          *)
(***************************************************************************)
InitLineFiles ==
    /\ Init
    /\ Len(content.base) <= 1
    /\ content.rep \in {1, 52428800}

NextAllOptions ==
    \/ RunAnalyzeAnyOptions
    \/ handleAnalyze

SpecAllOptions == InitLineFiles /\ [][NextAllOptions]_vars

\* the handler has returned, the process was ended, or the handler's promise
\* was rejected by the mock's throw
Finished == pc \in {"done", "exited", "rejected"}

(***************************************************************************)
(* What the claims speak of.                                               *)
(***************************************************************************)
Tags(stream) == {stream[i].tag : i \in DOMAIN stream}

\* an AnalysisResult (the report of a run) was handed out on a console stream
ReportProduced == "AnalysisResult" \in Tags(stdout) \cup Tags(stderr)

Digits == {"0", "1", "2", "3", "4", "5", "6", "7", "8", "9"}

DigitValue(d) ==
    CASE d = "0" -> 0 [] d = "1" -> 1 [] d = "2" -> 2 [] d = "3" -> 3
      [] d = "4" -> 4 [] d = "5" -> 5 [] d = "6" -> 6 [] d = "7" -> 7
      [] d = "8" -> 8 [] d = "9" -> 9

\* the number a text of decimal digits denotes
RECURSIVE NumberOf(_)
NumberOf(text) ==
    IF text = <<>> THEN 0
    ELSE 10 * NumberOf(SubSeq(text, 1, Len(text) - 1)) + DigitValue(text[Len(text)])

\* the text denotes a positive number: of the option texts of MaxTokensArgs,
\* "-5" denotes a number that is not positive and "abc" denotes none
IsPositiveNumber(text) ==
    /\ text # <<>>
    /\ \A i \in DOMAIN text : text[i] \in Digits
    /\ NumberOf(text) > 0

\* the handler has touched the input: it read the file or computed metrics
ProcessingBegun == fileContent # NoContent \/ metrics # NoMetrics

(***************************************************************************)
(* C6: a run of the analyze command on an existing, readable input file    *)
(* ends by producing a report (an AnalysisResult naming the chunks that    *)
(* were skipped or failed), rather than ending without one.                *)
(* handleAnalyze returns after the 'not yet implemented' notice and hands  *)
(* out no report: the predicate is violated at pc = "done".                *)
(***************************************************************************)
C6_RunEndsWithReport ==
    (cmd = "analyze" /\ fileExists /\ readable /\ Finished) => ReportProduced

(***************************************************************************)
(* C8: an invalid configuration (a --max-tokens value that is not a        *)
(* positive number) is rejected before any processing begins: the analyze  *)
(* command neither reads the input file nor computes metrics.              *)
(* handleAnalyze never looks at options.maxTokens: the predicate is        *)
(* violated once AnalyzeRead has run with --max-tokens 0.                  *)
(***************************************************************************)
C8_InvalidConfigRejected ==
    (cmd = "analyze" /\ ~IsPositiveNumber(options.maxTokens)) => ~ProcessingBegun

C18_TokensFromCharacters ==
    metrics # NoMetrics =>
        metrics.estimatedTokens = Ceil(StringLength(fileContent), TokenRatio)

(***************************************************************************)
(* C19 as stated: for every non-empty content the estimated token count    *)
(* is greater than 0 and strictly less than the content length.  Violated  *)
(* by the one-character text "a": 1 token, length 1.                       *)
(***************************************************************************)
C19_TokensBelowLength ==
    (metrics # NoMetrics /\ StringLength(fileContent) > 0) =>
        /\ metrics.estimatedTokens > 0
        /\ metrics.estimatedTokens < StringLength(fileContent)

(***************************************************************************)
(* C19 as amended: for every non-empty content the estimated token count   *)
(* is greater than 0 and at most the content length, and it is strictly    *)
(* less than the content length when the content has 4 characters or more. *)
(***************************************************************************)
C19_TokensAtMostLength ==
    (metrics # NoMetrics /\ StringLength(fileContent) > 0) =>
        /\ metrics.estimatedTokens > 0
        /\ metrics.estimatedTokens <= StringLength(fileContent)
        /\ StringLength(fileContent) >= 4 =>
               metrics.estimatedTokens < StringLength(fileContent)

\* metrics were computed for a text of exactly 4 characters of 3 bytes each,
\* the shortest length and the widest characters the strict bound covers
C19_Witness ==
    /\ metrics # NoMetrics
    /\ StringLength(fileContent) = 4
    /\ ByteLength(fileContent) = 12
    /\ metrics.estimatedTokens = 3

(***************************************************************************)
(* C20: when the file does not exist, each of the analyze, metrics and     *)
(* libraries commands reports a file-not-found error and ends the run      *)
(* with exit code 1, without reading the file, printing any metrics or     *)
(* going on to any analysis: the handler never stops short of its end,     *)
(* and at its end the error is on stderr, process.exit was requested, with *)
(* code 1 only, the handler did not return normally, nothing was read or   *)
(* computed, and stdout holds at most the analyze command's start banner.  *)
(***************************************************************************)
C20_MissingFileAborts ==
    (cmd # "none" /\ ~fileExists) =>
        /\ ~ProcessingBegun
        /\ Tags(stdout) \subseteq {"Starting", "Options"}
        /\ ~Finished => ENABLED Next
        /\ Finished =>
               /\ pc # "done"
               /\ "FileNotFound" \in Tags(stderr)
               /\ stderr[1].tag = "FileNotFound"
               /\ exitCalls # <<>>
               /\ \A i \in DOMAIN exitCalls : exitCalls[i] = 1

\* the analyze command ended a run on a missing file through process.exit(1)
C20_Witness ==
    /\ cmd = "analyze"
    /\ ~fileExists
    /\ pc = "exited"
    /\ exitCalls = <<1>>
    /\ Tags(stderr) = {"FileNotFound"}

\* the values printed on stream under tag
Printed(stream, tag) == {stream[i].val : i \in {j \in DOMAIN stream : stream[j].tag = tag}}

\* the number of newline characters of a text
Newlines(text) ==
    text.rep * Cardinality({i \in DOMAIN text.base : text.base[i] = "nl"})

(***************************************************************************)
(* C21: the metrics command reports chunks needed = ceil(estimatedTokens / *)
(* 200000): one number, the least count of 200000-token chunks that holds  *)
(* the estimated tokens, greater than 1 whenever the estimated tokens      *)
(* exceed 200000, whatever the options are.                                *)
(***************************************************************************)
C21_ChunksNeeded ==
    (cmd = "metrics" /\ pc = "done") =>
        \E n \in Printed(stdout, "ChunksNeeded") :
            /\ Printed(stdout, "ChunksNeeded") = {n}
            /\ n * 200000 >= metrics.estimatedTokens
            /\ (n - 1) * 200000 < metrics.estimatedTokens \/ n = 0
            /\ metrics.estimatedTokens > 200000 => n > 1
            /\ metrics.estimatedTokens = 0 <=> n = 0

\* the metrics command has reported 2 chunks for the 1000000-byte file of the
\* large-file test (250000 estimated tokens)
C21_Witness ==
    /\ cmd = "metrics"
    /\ pc = "done"
    /\ metrics.size = 1000000
    /\ metrics.estimatedTokens = 250000
    /\ Printed(stdout, "ChunksNeeded") = {2}

C24_OneExitOneMessage ==
    (cmd # "none" /\ ~fileExists /\ Finished) =>
        (Len(exitCalls) = 1 /\ Len(stderr) = 1)

\* the tags of a stream, in order
TagSeq(stream) == [i \in DOMAIN stream |-> stream[i].tag]

\* what the analyze command prints on stdout when it runs to its end
AnalyzeOutput ==
    <<"Starting">> \o (IF options.verbose THEN <<"Options">> ELSE <<>>)
        \o <<"FileMetrics", "Size", "Lines", "EstimatedTokens">>
        \o <<"NotImplemented", "NextSteps",
             "NextStep", "NextStep", "NextStep", "NextStep">>

\* the analyze command ran its fixed sequence and stopped: it read the file,
\* printed its metrics, warned only above 50MB, printed the notice, and did
\* nothing else
AnalyzeSequenceDone ==
    /\ pc = "done"
    /\ fileContent = content
    /\ TagSeq(stdout) = AnalyzeOutput
    /\ Printed(stdout, "EstimatedTokens") = {metrics.estimatedTokens}
    /\ TagSeq(stderr) =
           IF ByteLength(content) > 50 * 1024 * 1024 THEN <<"LargeFile">> ELSE <<>>
    /\ exitCalls = <<>>
    /\ ~ENABLED NextAllOptions

(***************************************************************************)
(* C23 as stated: for every existing input file and every combination of   *)
(* options the analyze command reads the file, prints the metrics, prints  *)
(* the large-file warning only if size > 50MB, prints the 'not yet         *)
(* implemented' notice and stops; it produces no AnalysisResult and does   *)
(* not write the --output file.  Violated by an existing file that cannot  *)
(* be read (a directory, a file without read permission): readFileSync     *)
(* throws and the run ends in the catch with 'Analysis failed'.            *)
(***************************************************************************)
C23_AnalyzeSequence ==
    (cmd = "analyze" /\ fileExists) =>
        /\ ~ReportProduced
        /\ ~outputWritten
        /\ ~Finished => ENABLED NextAllOptions
        /\ Finished => AnalyzeSequenceDone

(***************************************************************************)
(* C23 as amended: for every existing input file that can be read and      *)
(* every combination of options the analyze command performs that          *)
(* sequence and stops, produces no AnalysisResult and does not write the   *)
(* --output file.                                                          *)
(***************************************************************************)
C23_AnalyzeSequenceReadable ==
    (cmd = "analyze" /\ fileExists /\ readable) =>
        /\ ~ReportProduced
        /\ ~outputWritten
        /\ ~Finished => ENABLED NextAllOptions
        /\ Finished => AnalyzeSequenceDone

\* the analyze command has finished on a file above 50MB, with non-default
\* provider, focus and format, --output given and library filtering off
C23_Witness ==
    /\ cmd = "analyze"
    /\ pc = "done"
    /\ options.provider = "openai"
    /\ options.focus = "general"
    /\ options.format = "json"
    /\ options.output
    /\ ~options.filterLibraries
    /\ metrics.size > 50 * 1024 * 1024
    /\ TagSeq(stderr) = <<"LargeFile">>

=============================================================================
